---- MODULE Spec2Model ----
(***************************************************************************)
(* Model of the webpage-scrapper worker (src/src/index.ts, WebScrapper     *)
(* variant): the fetch handler (POST scrapes synchronously, PUT enqueues), *)
(* the queue handler (one browser session for a whole batch), and the      *)
(* WebScrapper class (getBrowser, scrapePage, cleanup) against a remote    *)
(* browser session pool, two R2 buckets, a D1 table and a queue.           *)
(* Every awaited remote call is one step and may fail.                     *)
(***************************************************************************)
EXTENDS Integers, Sequences, FiniteSets, TLC

\* ------------------------------------------------------------ bounds
\* Concurrent handler executions in the concurrent specification.
NProcs == 2
\* Session ids the pool can hand out.
MaxSessions == 2
\* Largest batch the queue delivers in the model.
MaxBatch == 2

\* ------------------------------------------------- program constants
DEFAULT_AWAIT_NETWORK_IDLE == 1000
DEFAULT_AWAIT_NETWORK_IDLE_TIMEOUT == 30000
DEFAULT_LANG == "en"
HTML == "html"
SCREENSHOT == "screenshot"
ALL == "all"
DEFAULT_MODE == HTML

Procs == 1..NProcs
SessionIds == 1..MaxSessions
\* A connection held by a worker outside the model.
External == NProcs + 1
\* An absent JSON field (undefined).
Missing == "<missing>"

\* ------------------------------------------------------------- URLs
\* A url string is modelled by its parts; scheme "" is a string with no
\* scheme (a relative reference), which `new URL(url)` rejects.
RawUrls ==
    { [scheme |-> "https", host |-> "a.test", path |-> ""],
      [scheme |-> "https", host |-> "a.test", path |-> "/"],
      [scheme |-> "https", host |-> "a.test", path |-> "/x"],
      [scheme |-> "", host |-> "", path |-> "a.test"] }
NoUrl == [scheme |-> "", host |-> "", path |-> ""]

\* new URL(url) throws TypeError for a string that is no absolute URL.
UrlParses(u) == u.scheme # ""
\* URL.toString(): the serialisation gives an empty path as "/".
UrlToString(u) == [u EXCEPT !.path = IF u.path = "" THEN "/" ELSE u.path]
UrlHostname(u) == u.host

\* crypto.subtle.digest as hex: collision-free on the model's inputs.
Sha1Hex(x) == <<"sha1", x>>
Sha256Hex(x) == <<"sha256", x>>
generateStorageKey(domain, url) == <<Sha1Hex(domain), Sha256Hex(url)>>

\* ---------------------------------------------------------- requests
Modes == {HTML, SCREENSHOT, ALL, "pdf"}
\* Time at which the page's last network request ends (ms after load).
SettleTimes == {0, 29400, 60000}
\* What page.goto can resolve to: a status, or 0 for no response.
GotoStatuses == {200, 403, 0}

\* The idle and lang fields of a body: both absent, or both given.
BodyOptions == { [idle |-> 0, lang |-> Missing], [idle |-> 500, lang |-> "fr"] }
Bodies ==
    { [url |-> u, idle |-> o.idle, lang |-> o.lang, mode |-> m] :
        u \in RawUrls \cup {NoUrl}, o \in BodyOptions, m \in Modes \cup {Missing} }
NoBody == [url |-> NoUrl, idle |-> 0, lang |-> Missing, mode |-> Missing]
Requests == [auth : BOOLEAN, method : {"GET", "POST", "PUT"}, json : BOOLEAN, body : Bodies]
NoRequest == [auth |-> FALSE, method |-> "", json |-> FALSE, body |-> NoBody]

NoResponse == [status |-> 0, message |-> "", error |-> ""]
NoCalls == [sessions |-> 0, connect |-> 0, launch |-> 0, disconnect |-> 0, acquired |-> 0]

VARIABLES
    alive, conn,                \* the pool: live sessions, each one's connection (0: none)
    htmlBucket, shotBucket,     \* RAW_HTML_BUCKET, SCREENSHOT_BUCKET: sets of [key, body]
    meta, now,                  \* PageMetadata rows, CURRENT_TIMESTAMP
    seq,                        \* sqlite_sequence of PageMetadata: the last id handed out
    queue,                      \* messages handed to SCRAPPER_QUEUE
    pc, kind, hstate,           \* per execution: position, handler, running/returned/threw
    req, resp,                  \* fetch: the request, the response
    browser, listing, picked,   \* WebScrapper.browser, sessions() result, chosen sessionId
    calls,                      \* pool calls made by the execution
    batchN, idx, msg, sigs,     \* queue: batch size, message index, its body, ack/retry calls
    log, err                    \* steps of the current scrapePage call, the error caught

poolVars == <<alive, conn>>
storeVars == <<htmlBucket, shotBucket, meta, now, seq>>
reqVars == <<kind, req, batchN>>
gbVars == <<browser, listing, picked, calls>>
vars == <<alive, conn, htmlBucket, shotBucket, meta, now, seq, queue, pc, kind, hstate,
          req, resp, browser, listing, picked, calls, batchN, idx, msg, sigs, log, err>>


\* ------------------------------------------------------------ helpers
\* Move execution p to `target`; "rejected" is an exception leaving the handler.
Goto(p, target) ==
    /\ pc' = [pc EXCEPT ![p] = IF target \in {"rejected", "returned"} THEN "done" ELSE target]
    /\ hstate' = [hstate EXCEPT ![p] =
                    IF target = "rejected" THEN "threw"
                    ELSE IF target = "returned" THEN "returned" ELSE @]

Logged(p, event) == log' = [log EXCEPT ![p] = Append(@, event)]
Caught(p, message) == err' = [err EXCEPT ![p] = message]
Called(p, c) == [calls[p] EXCEPT ![c] = @ + 1]

\* Where control goes when getBrowser throws: fetch's catch block (line 453),
\* or out of the queue handler, whose getBrowser call is outside any try.
AfterGetBrowserThrow(k) == IF k = "fetch" THEN "catch" ELSE "rejected"
\* After getBrowser returns: scrapePage (line 450), or the message loop (line 481).
AfterGetBrowser(k) == IF k = "fetch" THEN "scrape" ELSE "next"
\* Mutant: the loop's catch block acknowledges the message.
AfterScrapeThrowAcks(k) == IF k = "fetch" THEN "catch" ELSE "ack"
\* Where control goes when scrapePage throws: fetch's catch block, or the
\* loop's catch block, which calls message.retry() (line 491).
AfterScrapeThrow(k) == IF k = "fetch" THEN "catch" ELSE "retry"
\* After scrapePage returns: cleanup (line 451), or message.ack() (line 487).
AfterScrapeReturn(k) == IF k = "fetch" THEN "cleanup" ELSE "ack"
\* Mutant: a session is acquired for every message.
AfterSignalReacquires(i, n) == IF i < n THEN "sessions" ELSE "cleanupEnd"
\* The loop after a message was signalled: the next message, or cleanup (line 494).
AfterSignal(i, n) == IF i < n THEN "next" ELSE "cleanupEnd"

\* --------------------------------------------------------------- Init
Init ==
    /\ alive \in SUBSET SessionIds
    /\ conn \in [SessionIds -> {0, External}]
    /\ \A s \in SessionIds : s \notin alive => conn[s] = 0
    /\ htmlBucket = {}
    /\ shotBucket = {}
    /\ meta = {}
    /\ now = 1
    /\ seq = 0
    /\ queue = <<>>
    /\ pc = [p \in Procs |-> "idle"]
    /\ kind = [p \in Procs |-> "none"]
    /\ hstate = [p \in Procs |-> "idle"]
    /\ req = [p \in Procs |-> NoRequest]
    /\ resp = [p \in Procs |-> NoResponse]
    /\ browser = [p \in Procs |-> 0]
    /\ listing = [p \in Procs |-> {}]
    /\ picked = [p \in Procs |-> 0]
    /\ calls = [p \in Procs |-> NoCalls]
    /\ batchN = [p \in Procs |-> 0]
    /\ idx = [p \in Procs |-> 0]
    /\ msg = [p \in Procs |-> NoBody]
    /\ sigs = [p \in Procs |-> <<>>]
    /\ log = [p \in Procs |-> <<>>]
    /\ err = [p \in Procs |-> ""]

\* ------------------------------------------------------ fetch handler
\* Mutant: the authorization check is missing.
FetchDispatchNoAuth(r) ==
    IF r.method # "POST" /\ r.method # "PUT" THEN "405"
    ELSE IF ~r.json THEN "rejected"
    ELSE IF r.body.url = NoUrl THEN "400"
    ELSE r.method
\* The checks of fetch before its switch, in the code's order.
FetchDispatch(r) ==
    IF ~r.auth THEN "401"
    ELSE IF r.method # "POST" /\ r.method # "PUT" THEN "405"
    ELSE IF ~r.json THEN "rejected"
    ELSE IF r.body.url = NoUrl THEN "400"
    ELSE r.method

\* Mutant: the body is passed on as it came, absent fields included.
FillDefaultsNone(b) == b
\* body?.idle || DEFAULT..., body?.lang || DEFAULT_LANG, body?.mode || DEFAULT_MODE
FillDefaults(b) ==
    [url |-> b.url,
     idle |-> IF b.idle = 0 THEN DEFAULT_AWAIT_NETWORK_IDLE ELSE b.idle,
     lang |-> IF b.lang = Missing THEN DEFAULT_LANG ELSE b.lang,
     mode |-> IF b.mode = Missing THEN DEFAULT_MODE ELSE b.mode]

\* What a queued message carries: what fetch sends on PUT (lines 461-466),
\* here for the urls of QueueUrls and the bodies that give neither idle nor
\* lang (MetaMessages has the batches whose messages give them).
QueueUrls == { u \in RawUrls : u.path # "/x" }
Messages ==
    { FillDefaults(b) : b \in { c \in Bodies : c.url \in QueueUrls /\ c.idle = 0 } }

EarlyResponse(d) ==
    IF d = "401" THEN [status |-> 401, message |-> "Unauthorized", error |-> ""]
    ELSE IF d = "405" THEN [status |-> 405, message |-> "Invalid request method", error |-> ""]
    ELSE IF d = "400" THEN [status |-> 400, message |-> "URL is required", error |-> ""]
    ELSE NoResponse

FetchReceive(p, inputs) ==
    /\ pc[p] = "idle"
    /\ \E r \in inputs :
        LET d == FetchDispatch(r) IN
        /\ req' = [req EXCEPT ![p] = r]
        /\ kind' = [kind EXCEPT ![p] = "fetch"]
        /\ resp' = [resp EXCEPT ![p] = EarlyResponse(d)]
        /\ msg' = [msg EXCEPT ![p] = IF d \in {"POST", "PUT"} THEN FillDefaults(r.body) ELSE @]
        /\ pc' = [pc EXCEPT ![p] =
                    IF d = "POST" THEN "sessions" ELSE IF d = "PUT" THEN "send" ELSE "done"]
        /\ hstate' = [hstate EXCEPT ![p] =
                    IF d \in {"POST", "PUT"} THEN "running"
                    ELSE IF d = "rejected" THEN "threw" ELSE "returned"]
    /\ UNCHANGED <<poolVars, storeVars, queue, gbVars, batchN, idx, sigs, log, err>>

\* case "PUT": env.SCRAPPER_QUEUE.send(...), then 202; 500 when send throws.
FetchSend(p) ==
    /\ pc[p] = "send"
    /\ \/ /\ queue' = Append(queue, msg[p])
          /\ resp' = [resp EXCEPT ![p] =
                        [status |-> 202, message |-> "Request Accepted", error |-> ""]]
       \/ /\ queue' = queue
          /\ resp' = [resp EXCEPT ![p] =
                        [status |-> 500, message |-> "Failed to send message to queue", error |-> ""]]
    /\ Goto(p, "returned")
    /\ UNCHANGED <<poolVars, storeVars, reqVars, gbVars, idx, msg, sigs, log, err>>

\* ------------------------------------------------------- queue handler
QueueReceive(p, sizes) ==
    /\ pc[p] = "idle"
    /\ \E n \in sizes :
        /\ batchN' = [batchN EXCEPT ![p] = n]
        /\ kind' = [kind EXCEPT ![p] = "queue"]
    /\ pc' = [pc EXCEPT ![p] = "sessions"]
    /\ hstate' = [hstate EXCEPT ![p] = "running"]
    /\ UNCHANGED <<poolVars, storeVars, queue, req, resp, gbVars, idx, msg, sigs, log, err>>

\* for (const message of batch.messages): the next message's body is read.
QueueNext(p, inputs) ==
    /\ pc[p] = "next"
    /\ idx[p] < batchN[p]
    /\ \E m \in inputs : msg' = [msg EXCEPT ![p] = m]
    /\ idx' = [idx EXCEPT ![p] = @ + 1]
    /\ Goto(p, "scrape")
    /\ UNCHANGED <<poolVars, storeVars, queue, reqVars, resp, gbVars, sigs, log, err>>

\* message.ack() / message.retry(): the call is recorded with the index of the
\* message and whether its scrapePage call had thrown; the loop variables
\* (message, body, e) go out of scope.
Signal(p, s) ==
    /\ sigs' = [sigs EXCEPT ![p] = Append(@, [i |-> idx[p], sig |-> s, failed |-> err[p] # ""])]
    /\ msg' = [msg EXCEPT ![p] = NoBody]
    /\ log' = [log EXCEPT ![p] = <<>>]
    /\ err' = [err EXCEPT ![p] = ""]

QueueAck(p) ==
    /\ pc[p] = "ack"
    /\ Signal(p, "ack")
    /\ Goto(p, AfterSignal(idx[p], batchN[p]))
    /\ UNCHANGED <<poolVars, storeVars, queue, reqVars, resp, gbVars, idx>>

QueueRetry(p) ==
    /\ pc[p] = "retry"
    /\ Signal(p, "retry")
    /\ Goto(p, AfterSignal(idx[p], batchN[p]))
    /\ UNCHANGED <<poolVars, storeVars, queue, reqVars, resp, gbVars, idx>>


\* --------------------------------------------------------- getBrowser
\* puppeteer.sessions(): every live session with its connectionId (0: none).
Listing == { [sessionId |-> s, connectionId |-> conn[s]] : s \in alive }
\* Mutant: the connected sessions are not filtered out.
VacantSessionsAll(l) == { v.sessionId : v \in l }
\* sessions.filter(v => !v.connectionId).map(v => v.sessionId)
VacantSessions(l) == { v.sessionId : v \in { w \in l : w.connectionId = 0 } }
\* Mutant: the session is taken as attached though connect threw.
AttachResultAlways(ok, sessionId) == sessionId
\* this.browser after `this.browser = await puppeteer.connect(...)` in its try:
\* assigned when connect resolves, left undefined (0) when it throws.
AttachResult(ok, sessionId) == IF ok THEN sessionId ELSE 0
\* Mutant: a new browser is launched whether or not one is attached.
NeedsLaunchAlways(b) == TRUE
\* Mutant: no browser is launched after a failed attach.
NeedsLaunchNever(b) == FALSE
\* if (!this.browser)
NeedsLaunch(b) == b = 0
\* Mutant: cleanup never calls disconnect.
DisconnectsNever(b) == FALSE
\* this.browser?.disconnect(): a call is made only on a browser that is set.
Disconnects(b) == b # 0

\* getBrowser returning or throwing: its locals (sessions, sessionsIds,
\* sessionId) go out of scope.
Leave(p) ==
    /\ listing' = [listing EXCEPT ![p] = {}]
    /\ picked' = [picked EXCEPT ![p] = 0]

GetBrowserSessions(p) ==
    /\ pc[p] = "sessions"
    /\ \/ /\ listing' = [listing EXCEPT ![p] = Listing]
          /\ calls' = [calls EXCEPT ![p] = Called(p, "sessions")]
          /\ IF VacantSessions(Listing) # {}
             THEN /\ \E s \in VacantSessions(Listing) : picked' = [picked EXCEPT ![p] = s]
                  /\ Goto(p, "connect")
             ELSE /\ picked' = picked
                  /\ Goto(p, "launch")
          /\ err' = err
       \/ /\ calls' = [calls EXCEPT ![p] = Called(p, "sessions")]
          /\ Caught(p, "sessions failed")
          /\ Goto(p, AfterGetBrowserThrow(kind[p]))
          /\ UNCHANGED <<listing, picked>>
    /\ UNCHANGED <<poolVars, storeVars, queue, reqVars, resp, browser, idx, msg, sigs, log>>

GetBrowserConnect(p) ==
    /\ pc[p] = "connect"
    /\ \/ /\ picked[p] \in alive
          /\ conn[picked[p]] = 0
          /\ conn' = [conn EXCEPT ![picked[p]] = p]
          /\ browser' = [browser EXCEPT ![p] = AttachResult(TRUE, picked[p])]
          /\ calls' = [calls EXCEPT ![p] = [Called(p, "connect") EXCEPT !.acquired = @ + 1]]
       \/ /\ conn' = conn
          /\ browser' = [browser EXCEPT ![p] = AttachResult(FALSE, picked[p])]
          /\ calls' = [calls EXCEPT ![p] = Called(p, "connect")]
    /\ IF NeedsLaunch(browser'[p])
       THEN Goto(p, "launch") /\ UNCHANGED <<listing, picked>>
       ELSE Goto(p, AfterGetBrowser(kind[p])) /\ Leave(p)
    /\ UNCHANGED <<alive, storeVars, queue, reqVars, resp, idx, msg, sigs, log, err>>

GetBrowserLaunch(p) ==
    /\ pc[p] = "launch"
    /\ \/ /\ \E s \in SessionIds \ alive :
                /\ \A t \in SessionIds \ alive : s <= t
                /\ alive' = alive \cup {s}
                /\ conn' = [conn EXCEPT ![s] = p]
                /\ browser' = [browser EXCEPT ![p] = s]
          /\ calls' = [calls EXCEPT ![p] = [Called(p, "launch") EXCEPT !.acquired = @ + 1]]
          /\ Goto(p, AfterGetBrowser(kind[p]))
          /\ err' = err
       \/ /\ calls' = [calls EXCEPT ![p] = Called(p, "launch")]
          /\ Caught(p, "Failed to launch browser")
          /\ Goto(p, AfterGetBrowserThrow(kind[p]))
          /\ UNCHANGED <<alive, conn, browser>>
    /\ Leave(p)
    /\ UNCHANGED <<storeVars, queue, reqVars, resp, idx, msg, sigs, log>>

\* ------------------------------------------------------------ cleanup
\* browser.disconnect() resolving: the session loses this worker's connection.
Released(p) ==
    /\ conn' = [conn EXCEPT ![browser[p]] = IF @ = p THEN 0 ELSE @]
    /\ calls' = [calls EXCEPT ![p] = Called(p, "disconnect")]
\* browser.disconnect() throwing: the call was made, the pool is as before.
ReleaseFailed(p) ==
    /\ conn' = conn
    /\ calls' = [calls EXCEPT ![p] = Called(p, "disconnect")]

\* fetch, try block: await scrapper.cleanup(); return the 200 response.
FetchCleanup(p) ==
    /\ pc[p] = "cleanup"
    /\ \/ /\ IF Disconnects(browser[p]) THEN Released(p) ELSE UNCHANGED <<conn, calls>>
          /\ resp' = [resp EXCEPT ![p] =
                [status |-> 200, message |-> "Page scrapped successfully.", error |-> ""]]
          /\ Goto(p, "returned")
          /\ err' = err
       \/ /\ Disconnects(browser[p])
          /\ ReleaseFailed(p)
          /\ Caught(p, "disconnect failed")
          /\ Goto(p, "catch")
          /\ resp' = resp
    /\ UNCHANGED <<alive, storeVars, queue, reqVars, browser, listing, picked, idx, msg, sigs, log>>

\* fetch, catch block: await scrapper.cleanup(); return the 500 response.
FetchCatch(p) ==
    /\ pc[p] = "catch"
    /\ \/ /\ IF Disconnects(browser[p]) THEN Released(p) ELSE UNCHANGED <<conn, calls>>
          /\ resp' = [resp EXCEPT ![p] =
                [status |-> 500, message |-> "Failed to scrape page", error |-> err[p]]]
          /\ Goto(p, "returned")
       \/ /\ Disconnects(browser[p])
          /\ ReleaseFailed(p)
          /\ Goto(p, "rejected")
          /\ resp' = resp
    /\ UNCHANGED <<alive, storeVars, queue, reqVars, browser, listing, picked, idx, msg, sigs, log, err>>

\* queue, after the loop: await scrapper.cleanup().
QueueCleanup(p) ==
    /\ pc[p] = "cleanupEnd"
    /\ \/ /\ IF Disconnects(browser[p]) THEN Released(p) ELSE UNCHANGED <<conn, calls>>
          /\ Goto(p, "returned")
       \/ /\ Disconnects(browser[p])
          /\ ReleaseFailed(p)
          /\ Goto(p, "rejected")
    /\ UNCHANGED <<alive, storeVars, queue, reqVars, resp, browser, listing, picked, idx, msg,
                   sigs, log, err>>


\* --------------------------------------------------------- scrapePage
Step(name, code) == [step |-> name, code |-> code]
Steps(p) == { log[p][i].step : i \in 1..Len(log[p]) }
\* Mutant: a failed step is logged over and scrapePage goes on to the metadata.
ScrapeThrowSwallowed(p, message) ==
    /\ Caught(p, message)
    /\ Goto(p, "saveMeta")
\* An exception inside scrapePage: the caller's catch block takes over.
ScrapeThrow(p, message) ==
    /\ Caught(p, message)
    /\ Goto(p, AfterScrapeThrow(kind[p]))

\* const r2Key = await this.generateStorageKey(domain, targetUrlString)
R2Key(url) == generateStorageKey(UrlHostname(url), UrlToString(url))
\* Mutant: the status of the navigation response is not checked.
NavStatusOkAlways(status) == TRUE
\* if (response?.status() !== 200) throw
NavStatusOk(status) == status = 200
\* page.waitForNetworkIdle({idleTime, timeout}): the network must have been
\* quiet for idleTime before the timeout, else it throws a TimeoutError.
IdleReached(settle, idleTime) == settle + idleTime <= DEFAULT_AWAIT_NETWORK_IDLE_TIMEOUT
\* mode === HTML || mode === ALL;  mode === SCREENSHOT || mode === ALL
WantsHtml(mode) == mode = HTML \/ mode = ALL
\* Mutant: the screenshot block runs in every mode.
WantsScreenshotAlways(mode) == TRUE
WantsScreenshot(mode) == mode = SCREENSHOT \/ mode = ALL
\* Mutant: the HTML block stores before it extracts.
AfterNavigateStoresFirst(mode) == IF mode = HTML \/ mode = ALL THEN "saveHTML" ELSE "saveMeta"
\* scrapePage after navigateToPage returned, and after its HTML block.
AfterHtml(mode) == IF WantsScreenshot(mode) THEN "screenshot" ELSE "saveMeta"
AfterNavigate(mode) == IF WantsHtml(mode) THEN "content" ELSE AfterHtml(mode)

\* R2 put: the object under `name` is created or replaced.
Put(bucket, name, body) == { o \in bucket : o.key # name } \cup {[key |-> name, body |-> body]}
\* INSERT ... ON CONFLICT(url) DO UPDATE SET r2_path, lang, page_crawled_at
\* id INTEGER PRIMARY KEY AUTOINCREMENT: the id after the last one handed out.
\* The statement takes one whether it inserts or updates.
NextId(last) == last + 1
\* Mutant: a plain INSERT, with no conflict clause and no unique index.
UpsertInserts(rows, last, url, r2Key, lang, ts) ==
    rows \cup {[id |-> NextId(last), url |-> url, r2_path |-> r2Key, lang |-> lang,
                page_crawled_at |-> ts, markdown_created_at |-> 0,
                embedding_created_at |-> 0]}
\* Mutant: INSERT OR REPLACE, which deletes the conflicting row first.
UpsertReplaces(rows, last, url, r2Key, lang, ts) ==
    { r \in rows : r.url # url } \cup
        {[id |-> NextId(last), url |-> url, r2_path |-> r2Key, lang |-> lang,
          page_crawled_at |-> ts, markdown_created_at |-> 0, embedding_created_at |-> 0]}
Upsert(rows, last, url, r2Key, lang, ts) ==
    IF \E r \in rows : r.url = url
    THEN { IF r.url = url
           THEN [r EXCEPT !.r2_path = r2Key, !.lang = lang, !.page_crawled_at = ts]
           ELSE r : r \in rows }
    ELSE rows \cup {[id |-> NextId(last), url |-> url, r2_path |-> r2Key, lang |-> lang,
                     page_crawled_at |-> ts, markdown_created_at |-> 0,
                     embedding_created_at |-> 0]}

scrapeFrame == <<poolVars, queue, reqVars, resp, gbVars, idx, msg, sigs>>

\* new URL(url), the storage key, and navigateToPage's browser check.
ScrapeBegin(p) ==
    /\ pc[p] = "scrape"
    /\ IF ~UrlParses(msg[p].url) THEN ScrapeThrow(p, "Invalid URL")
       ELSE IF browser[p] = 0 THEN ScrapeThrow(p, "Browser not connected")
       ELSE Goto(p, "newPage") /\ err' = err
    /\ UNCHANGED <<scrapeFrame, storeVars, log>>

\* await this.browser.newPage()
NavNewPage(p) ==
    /\ pc[p] = "newPage"
    /\ \/ Logged(p, Step("newPage", 0)) /\ Goto(p, "setViewport") /\ err' = err
       \/ ScrapeThrow(p, "newPage failed") /\ log' = log
    /\ UNCHANGED <<scrapeFrame, storeVars>>

\* await page.setViewport({...})
NavSetViewport(p) ==
    /\ pc[p] = "setViewport"
    /\ \/ Logged(p, Step("setViewport", 0)) /\ Goto(p, "goto") /\ err' = err
       \/ ScrapeThrow(p, "setViewport failed") /\ log' = log
    /\ UNCHANGED <<scrapeFrame, storeVars>>

\* page.goto(targetUrl) and the status check
NavGoto(p) ==
    /\ pc[p] = "goto"
    /\ \/ \E status \in GotoStatuses :
            /\ Logged(p, Step("goto", status))
            /\ IF NavStatusOk(status)
               THEN Goto(p, "waitIdle") /\ err' = err
               ELSE ScrapeThrow(p, "Failed to load page")
       \/ ScrapeThrow(p, "goto failed") /\ log' = log
    /\ UNCHANGED <<scrapeFrame, storeVars>>

\* page.waitForNetworkIdle(...); navigateToPage returns the page
NavWaitIdle(p) ==
    /\ pc[p] = "waitIdle"
    /\ \/ \E settle \in SettleTimes :
            /\ Logged(p, Step("waitIdle", settle + msg[p].idle))
            /\ IF IdleReached(settle, msg[p].idle)
               THEN Goto(p, AfterNavigate(msg[p].mode)) /\ err' = err
               ELSE ScrapeThrow(p, "TimeoutError")
       \/ ScrapeThrow(p, "waitForNetworkIdle failed") /\ log' = log
    /\ UNCHANGED <<scrapeFrame, storeVars>>

\* getPageContent(page)
ScrapeContent(p) ==
    /\ pc[p] = "content"
    /\ \/ Logged(p, Step("content", 0)) /\ Goto(p, "saveHTML") /\ err' = err
       \/ ScrapeThrow(p, "content failed") /\ log' = log
    /\ UNCHANGED <<scrapeFrame, storeVars>>

\* saveHTML(r2Key, html): RAW_HTML_BUCKET.put(`${r2Key}.html`, html)
ScrapeSaveHTML(p) ==
    /\ pc[p] = "saveHTML"
    /\ \/ /\ htmlBucket' = Put(htmlBucket, <<R2Key(msg[p].url), ".html">>,
                               <<"markup", UrlToString(msg[p].url)>>)
          /\ Logged(p, Step("saveHTML", 0))
          /\ Goto(p, AfterHtml(msg[p].mode))
          /\ err' = err
       \/ ScrapeThrow(p, "R2 put failed") /\ UNCHANGED <<htmlBucket, log>>
    /\ UNCHANGED <<scrapeFrame, shotBucket, meta, now, seq>>

\* getPageScreenshot(page)
ScrapeScreenshot(p) ==
    /\ pc[p] = "screenshot"
    /\ \/ Logged(p, Step("screenshot", 0)) /\ Goto(p, "saveScreenshot") /\ err' = err
       \/ ScrapeThrow(p, "screenshot failed") /\ log' = log
    /\ UNCHANGED <<scrapeFrame, storeVars>>

\* saveScreenshot(r2Key, screenshot): SCREENSHOT_BUCKET.put(`${r2Key}.png`, ...)
ScrapeSaveScreenshot(p) ==
    /\ pc[p] = "saveScreenshot"
    /\ \/ /\ shotBucket' = Put(shotBucket, <<R2Key(msg[p].url), ".png">>,
                               <<"png", UrlToString(msg[p].url)>>)
          /\ Logged(p, Step("saveScreenshot", 0))
          /\ Goto(p, "saveMeta")
          /\ err' = err
       \/ ScrapeThrow(p, "R2 put failed") /\ UNCHANGED <<shotBucket, log>>
    /\ UNCHANGED <<scrapeFrame, htmlBucket, meta, now, seq>>

\* savePageMetadata(r2Key, url, lang); scrapePage returns.  The statement
\* reads CURRENT_TIMESTAMP, whose resolution is one second: two upserts in
\* the same second write the same page_crawled_at.
ScrapeSaveMeta(p) ==
    /\ pc[p] = "saveMeta"
    /\ \/ /\ meta' = Upsert(meta, seq, msg[p].url, R2Key(msg[p].url), msg[p].lang, now)
          /\ seq' = NextId(seq)
          /\ now' = now
          /\ Logged(p, Step("saveMeta", 0))
          /\ Goto(p, AfterScrapeReturn(kind[p]))
          /\ err' = err
       \/ ScrapeThrow(p, "D1 run failed") /\ UNCHANGED <<meta, now, seq, log>>
    /\ UNCHANGED <<scrapeFrame, htmlBucket, shotBucket>>

\* ------------------------------------------------- the pool's other users
\* Workers outside the model attach to, release, start and close sessions.
EnvConnect(s) ==
    /\ s \in alive /\ conn[s] = 0
    /\ conn' = [conn EXCEPT ![s] = External]
    /\ UNCHANGED <<alive, storeVars, queue, pc, kind, hstate, req, resp, gbVars, batchN, idx,
                   msg, sigs, log, err>>
EnvDisconnect(s) ==
    /\ s \in alive /\ conn[s] = External
    /\ conn' = [conn EXCEPT ![s] = 0]
    /\ UNCHANGED <<alive, storeVars, queue, pc, kind, hstate, req, resp, gbVars, batchN, idx,
                   msg, sigs, log, err>>
EnvLaunch(s) ==
    /\ s \notin alive
    /\ alive' = alive \cup {s}
    /\ conn' = [conn EXCEPT ![s] = External]
    /\ UNCHANGED <<storeVars, queue, pc, kind, hstate, req, resp, gbVars, batchN, idx,
                   msg, sigs, log, err>>
EnvClose(s) ==
    /\ s \in alive /\ conn[s] \in {0, External}
    /\ alive' = alive \ {s}
    /\ conn' = [conn EXCEPT ![s] = 0]
    /\ UNCHANGED <<storeVars, queue, pc, kind, hstate, req, resp, gbVars, batchN, idx,
                   msg, sigs, log, err>>
\* The downstream collaborators that own markdown_created_at and
\* embedding_created_at stamp a row; they act on the row an execution is
\* about to upsert, which is where the scraper can meet their writes.
UpsertPending == \E p \in Procs : pc[p] = "saveMeta"
UpsertPendingOn(url) == \E p \in Procs : pc[p] = "saveMeta" /\ msg[p].url = url
DownstreamMarkdown(r) ==
    /\ UpsertPendingOn(r.url)
    /\ r \in meta /\ r.markdown_created_at = 0
    /\ meta' = (meta \ {r}) \cup {[r EXCEPT !.markdown_created_at = now]}
    /\ UNCHANGED <<poolVars, htmlBucket, shotBucket, now, seq, queue, pc, kind, hstate, req, resp,
                   gbVars, batchN, idx, msg, sigs, log, err>>
DownstreamEmbedding(r) ==
    /\ UpsertPendingOn(r.url)
    /\ r \in meta /\ r.embedding_created_at = 0
    /\ meta' = (meta \ {r}) \cup {[r EXCEPT !.embedding_created_at = now]}
    /\ UNCHANGED <<poolVars, htmlBucket, shotBucket, now, seq, queue, pc, kind, hstate, req, resp,
                   gbVars, batchN, idx, msg, sigs, log, err>>
Downstream == \E r \in meta : DownstreamMarkdown(r) \/ DownstreamEmbedding(r)

\* The clock of CURRENT_TIMESTAMP reaches the next second.  Only whether an
\* upsert reads the second of the upsert before it or a later one matters:
\* one tick between two upserts stands for any number of them.
Tick ==
    /\ UpsertPending
    /\ now <= seq
    /\ now' = now + 1
    /\ UNCHANGED <<poolVars, htmlBucket, shotBucket, meta, seq, queue, pc, kind, hstate, req,
                   resp, gbVars, batchN, idx, msg, sigs, log, err>>

\* The pool changes only while some execution is inside getBrowser, where
\* alone the executions read it.
PoolWatched == \E p \in Procs : pc[p] \in {"sessions", "connect", "launch"}
Env ==
    /\ PoolWatched
    /\ \E s \in SessionIds : EnvConnect(s) \/ EnvDisconnect(s) \/ EnvLaunch(s) \/ EnvClose(s)

\* ------------------------------------------------------ specifications
Handler(p) ==
    \/ FetchSend(p) \/ QueueAck(p) \/ QueueRetry(p)
    \/ GetBrowserSessions(p) \/ GetBrowserConnect(p) \/ GetBrowserLaunch(p)
    \/ FetchCleanup(p) \/ FetchCatch(p) \/ QueueCleanup(p)
    \/ ScrapeBegin(p) \/ NavNewPage(p) \/ NavSetViewport(p) \/ NavGoto(p)
    \/ NavWaitIdle(p)
    \/ ScrapeContent(p) \/ ScrapeSaveHTML(p) \/ ScrapeScreenshot(p)
    \/ ScrapeSaveScreenshot(p) \/ ScrapeSaveMeta(p)

\* One handler execution at a time, any request or batch, any pool, while
\* the clock runs.
Next ==
    \/ FetchReceive(1, Requests)
    \/ QueueReceive(1, 1..MaxBatch)
    \/ QueueNext(1, Messages)
    \/ Handler(1)
    \/ Env
    \/ Tick
Spec == Init /\ [][Next]_vars


\* Concurrent handler executions (wrangler.toml: max_concurrency = 2) on one
\* pool, each a synchronous request, an enqueue, or a batch of one message.
ConcUrl == [scheme |-> "https", host |-> "a.test", path |-> "/"]
ConcRequests ==
    { [auth |-> TRUE, method |-> m, json |-> TRUE,
       body |-> [url |-> ConcUrl, idle |-> 0, lang |-> Missing, mode |-> ALL]] :
        m \in {"POST", "PUT"} }
ConcMessages == { FillDefaults(r.body) : r \in ConcRequests }
NextConc ==
    \E p \in Procs :
        \/ FetchReceive(p, ConcRequests)
        \/ QueueReceive(p, {1})
        \/ QueueNext(p, ConcMessages)
        \/ Handler(p)
        \/ Tick
SpecConc == Init /\ [][NextConc]_vars

\* One handler execution next to the clock and the downstream workers that
\* stamp the rows of PageMetadata: a synchronous request, an enqueue, or a batch of
\* HTML-mode messages for urls with the same serialisation.
MetaMessages ==
    { FillDefaults(b) : b \in { c \in Bodies : UrlParses(c.url) /\ c.url.path # "/x"
                                               /\ c.mode = Missing } }
NextMeta ==
    \/ FetchReceive(1, ConcRequests)
    \/ QueueReceive(1, 1..MaxBatch)
    \/ QueueNext(1, MetaMessages)
    \/ Handler(1)
    \/ Downstream
    \/ Tick
SpecMeta == Init /\ [][NextMeta]_vars

\* Concurrent handler executions that upsert into one PageMetadata table
\* while the clock runs: each a synchronous request, an enqueue, or a batch
\* of one message of MetaMessages, so that two executions meet on one url
\* with the same or another lang, or on two urls.
NextUpsert ==
    \/ \E p \in Procs :
          \/ FetchReceive(p, ConcRequests)
          \/ QueueReceive(p, {1})
          \/ QueueNext(p, MetaMessages)
          \/ Handler(p)
    \/ Tick
SpecUpsert == Init /\ [][NextUpsert]_vars


\* ============================================================ claims
\* Errors thrown by the stages of scrapePage.
StageErrors ==
    {"Invalid URL", "newPage failed", "setViewport failed", "goto failed",
     "Failed to load page", "TimeoutError", "waitForNetworkIdle failed", "content failed", "screenshot failed", "R2 put failed", "D1 run failed"}
\* Errors thrown by getBrowser.
AcquireErrors == {"sessions failed", "Failed to launch browser"}
\* Positions inside getBrowser, inside scrapePage, inside the batch loop.
AcquirePcs == {"sessions", "connect", "launch"}
ScrapePcs ==
    {"scrape", "newPage", "setViewport", "goto", "waitIdle", "content", "saveHTML", "screenshot",
     "saveScreenshot", "saveMeta"}
LoopPcs == ScrapePcs \cup {"next", "ack", "retry"}
\* The sessions of the listing that it reports without a connection.
ListedFree(p) == { v.sessionId : v \in { w \in listing[p] : w.connectionId = 0 } }
IsSync(p) == kind[p] = "fetch" /\ req[p].method = "POST"

\* C1: in the synchronous path, an attempt that acquired a session and that
\* succeeded, or failed at a stage of scrapePage (url, navigation, idle wait,
\* extraction, artifact store, metadata upsert), has made exactly one
\* session-release call (browser.disconnect) when the handler ends, and
\* none more than once before.
C1_ReleasedOncePerAttempt ==
    \A p \in Procs :
        (IsSync(p) /\ calls[p].acquired > 0 /\ err[p] \in StageErrors \cup {""}) =>
            /\ calls[p].disconnect <= 1
            /\ pc[p] = "done" => calls[p].disconnect = 1
            /\ resp[p] # NoResponse => (calls[p].disconnect = 1 /\ conn[browser[p]] # p)
C1_Witness ==
    \E p \in Procs :
        /\ IsSync(p) /\ hstate[p] = "returned" /\ resp[p].status = 500
        /\ err[p] = "D1 run failed" /\ calls[p].acquired = 1 /\ calls[p].disconnect = 1

\* C2: in the batch path getBrowser runs once, before the first message; while
\* the messages are processed exactly one session has been acquired and none
\* released; after the last message exactly one release call has been made.
C2_OneSessionPerBatch ==
    \A p \in Procs :
        kind[p] = "queue" =>
            /\ calls[p].sessions <= 1 /\ calls[p].acquired <= 1 /\ calls[p].disconnect <= 1
            /\ pc[p] \in AcquirePcs => (idx[p] = 0 /\ sigs[p] = <<>>)
            /\ pc[p] \in LoopPcs =>
                 (calls[p].sessions = 1 /\ calls[p].acquired = 1 /\ calls[p].disconnect = 0)
            /\ (pc[p] = "done" /\ sigs[p] # <<>>) =>
                 (calls[p].acquired = 1 /\ calls[p].disconnect = 1 /\ Len(sigs[p]) = batchN[p])
C2_Witness ==
    \E p \in Procs :
        /\ kind[p] = "queue" /\ hstate[p] = "returned" /\ batchN[p] >= 2
        /\ \E i, j \in 1..Len(sigs[p]) : sigs[p][i].sig = "ack" /\ sigs[p][j].sig = "retry"
        /\ calls[p].acquired = 1 /\ calls[p].disconnect = 1

\* C3: in the batch path the messages are processed one at a time in batch
\* order; each processed message gets exactly one signal, ack iff its
\* scrapePage call returned and retry iff it threw; a failed message does
\* not stop the later ones from being processed and signalled.
C3_AckOrRetryInOrder ==
    \A p \in Procs :
        kind[p] = "queue" =>
            /\ \A j \in 1..Len(sigs[p]) :
                 /\ sigs[p][j].i = j
                 /\ sigs[p][j].sig \in {"ack", "retry"}
                 /\ sigs[p][j].sig = "ack" <=> ~sigs[p][j].failed
            /\ pc[p] \in ScrapePcs \cup {"ack", "retry"} => Len(sigs[p]) = idx[p] - 1
            /\ pc[p] = "ack" => err[p] = ""
            /\ pc[p] = "retry" => err[p] # ""
            /\ pc[p] \in {"next", "cleanupEnd"} => Len(sigs[p]) = idx[p]
            /\ pc[p] = "cleanupEnd" => Len(sigs[p]) = batchN[p]
C3_Witness ==
    \E p \in Procs :
        /\ kind[p] = "queue" /\ pc[p] = "done" /\ Len(sigs[p]) = 2
        /\ sigs[p][1].sig = "retry" /\ sigs[p][1].failed
        /\ sigs[p][2].sig = "ack" /\ ~sigs[p][2].failed

\* An execution holds the session it acquired until it calls disconnect.
Holds(p) == browser[p] # 0 /\ calls[p].disconnect = 0

\* C4: with executions running getBrowser concurrently on one pool that
\* rejects an attach to a connected session, the session an execution
\* acquired is connected to that execution and to no other until the
\* execution releases it: no two executions hold the same session.
C4_ExclusiveOwnership ==
    \A p \in Procs :
        Holds(p) =>
            /\ browser[p] \in alive
            /\ conn[browser[p]] = p
            /\ \A q \in Procs \ {p} : Holds(q) => browser[q] # browser[p]
\* Two executions listed the same free session; one attached to it, the
\* other's attach was rejected and it launched a session of its own.
C4_Witness ==
    \E p, q \in Procs :
        /\ p # q /\ Holds(p) /\ Holds(q)
        /\ calls[p].connect = 1 /\ calls[p].launch = 0
        /\ calls[q].connect = 1 /\ calls[q].launch = 1

\* The step of p in which sessions() returned the listing.
Listed(p) == pc[p] = "sessions" /\ pc'[p] \in {"connect", "launch"}
\* The step of p in which connect resolved, and in which it threw.
Attached(p) == pc[p] = "connect" /\ browser'[p] # 0
AttachFailed(p) == pc[p] = "connect" /\ pc'[p] # "connect" /\ browser'[p] = 0
\* The step of p in which launch resolved or threw.
Launched(p) == pc[p] = "launch" /\ pc'[p] # "launch"

\* C5: when the listing has a session without a connection, getBrowser
\* selects one of those (the only one, when there is exactly one) and tries
\* to attach to it; when the attach succeeds the browser is that session,
\* no launch call is made and getBrowser returns.
C5_ReusesFreeSession ==
    /\ [](\A p \in Procs : pc[p] = "connect" => calls[p].launch = 0)
    /\ [][\A p \in Procs :
            /\ (Listed(p) /\ ListedFree(p)' # {}) =>
                  /\ pc'[p] = "connect"
                  /\ picked'[p] \in ListedFree(p)'
                  /\ Cardinality(ListedFree(p)') = 1 => ListedFree(p)' = {picked'[p]}
            /\ Attached(p) =>
                  /\ browser'[p] = picked[p]
                  /\ browser'[p] \in ListedFree(p)
                  /\ conn'[browser'[p]] = p
                  /\ calls'[p].connect = 1 /\ calls'[p].launch = 0
                  /\ pc'[p] \notin AcquirePcs /\ hstate'[p] = "running"]_vars
C5_Witness ==
    \E p \in Procs :
        /\ pc[p] \in ScrapePcs \cup {"next"} /\ browser[p] # 0 /\ conn[browser[p]] = p
        /\ calls[p].connect = 1 /\ calls[p].launch = 0 /\ calls[p].acquired = 1

\* C6: when the listing is empty or every listed session has a connection,
\* getBrowser makes no connect call and exactly one launch call, which
\* starts a session that did not exist; the session chosen for a connect
\* call is never one the listing reported as connected.
C6_LaunchesUnderContention ==
    /\ [](\A p \in Procs :
            /\ pc[p] = "connect" =>
                  \A v \in listing[p] : v.sessionId = picked[p] => v.connectionId = 0
            /\ (pc[p] = "launch" /\ ListedFree(p) = {}) =>
                  (calls[p].connect = 0 /\ calls[p].launch = 0))
    /\ [][\A p \in Procs :
            /\ (Listed(p) /\ ListedFree(p)' = {}) =>
                  (pc'[p] = "launch" /\ calls'[p].connect = 0)
            /\ (Launched(p) /\ ListedFree(p) = {}) =>
                  /\ calls'[p].connect = 0 /\ calls'[p].launch = 1
                  /\ browser'[p] # 0 =>
                        (browser'[p] \notin alive /\ browser'[p] \in alive'
                         /\ conn'[browser'[p]] = p)]_vars
\* getBrowser returned a launched session without a connect call, next to
\* a session that another worker is connected to.
C6_Witness ==
    \E p \in Procs :
        /\ pc[p] \in ScrapePcs \cup {"next"}
        /\ calls[p].connect = 0 /\ calls[p].launch = 1
        /\ browser[p] # 0 /\ conn[browser[p]] = p
        /\ \E s \in alive \ {browser[p]} : conn[s] = External

\* C7: a connect call that throws does not end getBrowser: no second connect
\* call is made, exactly one launch call follows, and getBrowser throws iff
\* that launch call throws; when it throws, the handler's attempt ends with
\* that error and none of navigation, extraction, store and metadata has run.
C7_AttachFailureFallsBack ==
    /\ [](\A p \in Procs :
            /\ calls[p].connect <= 1 /\ calls[p].launch <= 1
            /\ err[p] = "Failed to launch browser" =>
                  /\ calls[p].launch = 1 /\ browser[p] = 0
                  /\ log[p] = <<>> /\ idx[p] = 0 /\ sigs[p] = <<>>
                  /\ htmlBucket = {} /\ shotBucket = {} /\ meta = {}
                  /\ pc[p] \in {"catch", "done"}
                  /\ (pc[p] = "done" /\ kind[p] = "queue") => hstate[p] = "threw"
                  /\ (hstate[p] = "returned") =>
                        (resp[p].status = 500 /\ resp[p].error = "Failed to launch browser"))
    /\ [][\A p \in Procs :
            /\ AttachFailed(p) =>
                  /\ pc'[p] = "launch" /\ err'[p] = "" /\ hstate'[p] = "running"
                  /\ calls'[p].connect = 1 /\ calls'[p].launch = 0
            /\ (Launched(p) /\ calls[p].connect = 1) =>
                  /\ calls'[p].connect = 1 /\ calls'[p].launch = 1
                  /\ (browser'[p] = 0) <=> (err'[p] = "Failed to launch browser")
                  /\ (browser'[p] = 0) <=> (pc'[p] \in {"catch", "done"})
                  /\ (browser'[p] # 0) <=> (pc'[p] \in {"scrape", "next"})]_vars
C7_Witness ==
    \E p \in Procs :
        /\ calls[p].connect = 1 /\ calls[p].launch = 1
        /\ err[p] = "Failed to launch browser"
        /\ hstate[p] = "returned" /\ resp[p].status = 500

\* C8: every failure other than an attach failure is surfaced: a synchronous
\* request that met one ends with a 500 response carrying it, and a batch
\* that met one ends with every message signalled, the failed ones for
\* retry, also when the failure is getBrowser's at the start of the batch.
C8_EveryFailureSurfaced ==
    \A p \in Procs :
        /\ (IsSync(p) /\ pc[p] = "done" /\ err[p] # "") =>
              (hstate[p] = "returned" /\ resp[p].status = 500 /\ resp[p].error = err[p])
        /\ (kind[p] = "queue" /\ pc[p] = "done") =>
              /\ Len(sigs[p]) = batchN[p]
              /\ \A j \in 1..Len(sigs[p]) :
                    (sigs[p][j].failed \/ err[p] \in AcquireErrors) => sigs[p][j].sig = "retry"

StepNames(l) == [i \in 1..Len(l) |-> l[i].step]
NavSteps == {"newPage", "setViewport", "goto", "waitIdle"}
ExtractSteps == {"content", "screenshot"}
StoreSteps == {"saveHTML", "saveScreenshot"}
WriteSteps == StoreSteps \cup {"saveMeta"}
NavigatedOk(l, i) ==
    /\ \E j \in 1..(i - 1) : l[j].step = "goto" /\ l[j].code = 200
    /\ \E j \in 1..(i - 1) :
          l[j].step = "waitIdle" /\ l[j].code <= DEFAULT_AWAIT_NETWORK_IDLE_TIMEOUT

\* C9: a navigation that resolves with no response or a status other than
\* 200, and an idle wait that reaches the timeout, are the last step of
\* their attempt, which fails; an extraction, an artifact write or a
\* metadata upsert happens only after a 200 navigation and a completed idle
\* wait of the same attempt.
C9_NoWorkAfterFailedNavigation ==
    /\ [](\A p \in Procs : \A i \in 1..Len(log[p]) :
            LET e == log[p][i] IN
            /\ (e.step = "goto" /\ e.code # 200) =>
                  (i = Len(log[p]) /\ err[p] = "Failed to load page"
                   /\ pc[p] \in {"catch", "retry", "done"} /\ resp[p].status # 200)
            /\ (e.step = "waitIdle" /\ e.code > DEFAULT_AWAIT_NETWORK_IDLE_TIMEOUT) =>
                  (i = Len(log[p]) /\ err[p] = "TimeoutError"
                   /\ pc[p] \in {"catch", "retry", "done"} /\ resp[p].status # 200)
            /\ e.step \in ExtractSteps \cup WriteSteps => NavigatedOk(log[p], i))
    /\ [][<<htmlBucket, shotBucket, meta>>' # <<htmlBucket, shotBucket, meta>> =>
            \E p \in Procs : NavigatedOk(log[p], Len(log[p]) + 1)]_vars
C9_Witness ==
    \E p \in Procs :
        /\ IsSync(p) /\ hstate[p] = "returned" /\ resp[p].status = 500
        /\ resp[p].error = "Failed to load page"
        /\ log[p] # <<>> /\ log[p][Len(log[p])] = Step("goto", 403)
        /\ htmlBucket = {} /\ shotBucket = {} /\ meta = {}

\* C10 as stated: navigation before any extraction, every extraction before
\* any artifact write, every artifact write before the metadata upsert.
C10_ExtractionsBeforeStores ==
    \A p \in Procs : \A i, j \in 1..Len(log[p]) :
        i < j =>
            LET a == log[p][i].step
                b == log[p][j].step
            IN  /\ ~(a \in ExtractSteps \cup WriteSteps /\ b \in NavSteps)
                /\ ~(a \in StoreSteps /\ b \in ExtractSteps)
                /\ ~(a = "saveMeta" /\ b \in StoreSteps \cup ExtractSteps)

\* The order of the steps of scrapePage in each mode.
Prefixes(q) == { SubSeq(q, 1, n) : n \in 0..Len(q) }
ModeOrder(mode) ==
    IF mode = HTML
    THEN <<"newPage", "setViewport", "goto", "waitIdle", "content", "saveHTML", "saveMeta">>
    ELSE IF mode = SCREENSHOT
    THEN <<"newPage", "setViewport", "goto", "waitIdle", "screenshot", "saveScreenshot", "saveMeta">>
    ELSE <<"newPage", "setViewport", "goto", "waitIdle", "content", "saveHTML", "screenshot",
           "saveScreenshot", "saveMeta">>

\* C10 (amended): in each of the modes HTML, SCREENSHOT and ALL the steps of
\* an attempt run one after the other: navigation before any extraction,
\* each artifact extracted right before it is written, every artifact write
\* before the metadata upsert; in ALL mode the HTML is extracted and written
\* before the screenshot is extracted and written.
C10_SequentialPerArtifact ==
    \A p \in Procs :
        msg[p].mode \in {HTML, SCREENSHOT, ALL} =>
            /\ StepNames(log[p]) \in Prefixes(ModeOrder(msg[p].mode))
            /\ \A i, j \in 1..Len(log[p]) :
                 i < j =>
                    LET a == log[p][i].step
                        b == log[p][j].step
                    IN  /\ ~(a \in ExtractSteps \cup WriteSteps /\ b \in NavSteps)
                        /\ ~(a = "saveHTML" /\ b = "content")
                        /\ ~(a = "saveScreenshot" /\ b = "screenshot")
                        /\ ~(a = "saveMeta" /\ b \in StoreSteps \cup ExtractSteps)
            /\ \A j \in 1..Len(log[p]) :
                 /\ log[p][j].step = "saveHTML" => (j > 1 /\ log[p][j - 1].step = "content")
                 /\ log[p][j].step = "saveScreenshot" =>
                       (j > 1 /\ log[p][j - 1].step = "screenshot")
C10_Witness ==
    \E p \in Procs :
        /\ msg[p].mode = ALL /\ Len(log[p]) = 9
        /\ log[p][6].step = "saveHTML" /\ log[p][7].step = "screenshot"
        /\ log[p][9].step = "saveMeta"

\* The HTML object that scrapePage writes for url.
HtmlObjectOf(url) ==
    [key |-> <<R2Key(url), ".html">>, body |-> <<"markup", UrlToString(url)>>]
\* The step of p in which the put of the screenshot threw.
ScreenshotPutFailed(p) == pc[p] = "saveScreenshot" /\ err'[p] = "R2 put failed"

\* C11: in ALL mode the HTML is extracted and stored before the screenshot is
\* extracted; when the screenshot put then fails, the attempt fails (the
\* catch block of the caller runs, a synchronous caller gets the 500
\* response), the HTML object stays in its bucket, and the attempt makes
\* no metadata upsert.
C11_PartialFailureInAllMode ==
    /\ [](\A p \in Procs :
            /\ (msg[p].mode = ALL /\ pc[p] \in {"screenshot", "saveScreenshot"}) =>
                  /\ \E i \in 1..Len(log[p]) : log[p][i].step = "saveHTML"
                  /\ HtmlObjectOf(msg[p].url) \in htmlBucket
            /\ (IsSync(p) /\ msg[p].mode = ALL /\ err[p] = "R2 put failed"
                 /\ pc[p] = "done" /\ hstate[p] = "returned") =>
                  /\ resp[p].status = 500 /\ resp[p].error = "R2 put failed"
                  /\ meta = {}
                  /\ "saveMeta" \notin Steps(p))
    /\ [][\A p \in Procs :
            (msg[p].mode = ALL /\ ScreenshotPutFailed(p)) =>
                /\ pc'[p] \in {"catch", "retry"}
                /\ HtmlObjectOf(msg[p].url) \in htmlBucket'
                /\ htmlBucket' = htmlBucket /\ shotBucket' = shotBucket
                /\ meta' = meta
                /\ log'[p] = log[p]]_vars
C11_Witness ==
    \E p \in Procs :
        /\ IsSync(p) /\ msg[p].mode = ALL /\ hstate[p] = "returned"
        /\ resp[p].status = 500 /\ resp[p].error = "R2 put failed"
        /\ log[p] # <<>> /\ log[p][Len(log[p])].step = "screenshot"
        /\ HtmlObjectOf(msg[p].url) \in htmlBucket
        /\ shotBucket = {} /\ meta = {}

\* The step of p in which savePageMetadata's statement ran.
Upserted(p) == pc[p] = "saveMeta" /\ log'[p] # log[p]
\* The key derived for a url: the digests of its host and of its serialisation.
KeyOf(url) == <<Sha1Hex(UrlHostname(url)), Sha256Hex(UrlToString(url))>>

\* C12: in every interleaving of sequential or concurrent scrapes, the
\* PageMetadata table never holds two rows with the same url (nor with the
\* same id); a scrape of a url that has a row updates r2_path, lang
\* and page_crawled_at of that row and adds none, a scrape of a new url adds
\* one row; every row's r2_path is the key derived for its url.
C12_OneRecordPerUrl ==
    /\ [](/\ \A r1, r2 \in meta : (r1.url = r2.url \/ r1.id = r2.id) => r1 = r2
          /\ \A r \in meta : r.r2_path = KeyOf(r.url))
    /\ [][\A p \in Procs :
            Upserted(p) =>
                LET u == msg[p].url IN
                /\ \E r \in meta' :
                      /\ r.url = u /\ r.r2_path = KeyOf(u)
                      /\ r.lang = msg[p].lang /\ r.page_crawled_at = now
                /\ (\E r \in meta : r.url = u) => Cardinality(meta') = Cardinality(meta)
                /\ (\A r \in meta : r.url # u) => Cardinality(meta') = Cardinality(meta) + 1
                /\ \A r \in meta : \E t \in meta' : t.id = r.id /\ t.url = r.url]_vars
\* Two executions running at the same time scraped the same url with
\* different langs, the "fr" one last and in a later second: one row, which
\* kept its id and carries the last upsert's lang and second.
C12_Witness ==
    \E p, q \in Procs : \E r \in meta :
        /\ p # q /\ kind[p] = "queue" /\ kind[q] = "queue"
        /\ pc[p] = "ack" /\ pc[q] = "ack"
        /\ msg[p].url = msg[q].url /\ msg[p].lang = "en" /\ msg[q].lang = "fr"
        /\ meta = {r} /\ r.url = msg[q].url /\ r.lang = "fr"
        /\ r.page_crawled_at = 2 /\ r.id = 1 /\ seq = 2

\* C13: savePageMetadata changes, in the row of its url, only r2_path, lang
\* and page_crawled_at: markdown_created_at and embedding_created_at (and id
\* and url) keep their values, and the rows of other urls are unchanged.
C13_DownstreamFieldsKept ==
    [][\A p \in Procs :
        Upserted(p) =>
            \A r \in meta :
                IF r.url = msg[p].url
                THEN \E t \in meta' :
                        /\ t.url = r.url /\ t.id = r.id
                        /\ t.markdown_created_at = r.markdown_created_at
                        /\ t.embedding_created_at = r.embedding_created_at
                ELSE r \in meta']_vars
\* A row stamped by both downstream workers was then crawled again.
C13_Witness ==
    \E r \in meta :
        /\ r.markdown_created_at = 1 /\ r.embedding_created_at = 1
        /\ r.page_crawled_at = 2 /\ r.id = 1 /\ seq = 2

\* C14: the metadata row is keyed by the canonical url: no two rows have urls
\* with the same serialisation, and no two rows have the same r2_path.
C14_KeyedByCanonicalUrl ==
    \A r1, r2 \in meta :
        (UrlToString(r1.url) = UrlToString(r2.url) \/ r1.r2_path = r2.r2_path) => r1 = r2

\* Nothing outside the handler was touched by execution p.
NoEffects(p) ==
    /\ calls[p] = NoCalls /\ browser[p] = 0
    /\ queue = <<>>
    /\ htmlBucket = {} /\ shotBucket = {} /\ meta = {}
    /\ log[p] = <<>>

\* C15: a request without the valid bearer token ends, whatever its method
\* and body, with the 401 Unauthorized response and has made no pool call,
\* no queue send, no bucket write and no metadata write.
C15_UnauthorizedShortCircuits ==
    \A p \in Procs :
        (kind[p] = "fetch" /\ ~req[p].auth) =>
            /\ pc[p] = "done" /\ hstate[p] = "returned"
            /\ resp[p] = [status |-> 401, message |-> "Unauthorized", error |-> ""]
            /\ NoEffects(p)
C15_Witness ==
    \E p \in Procs :
        /\ kind[p] = "fetch" /\ ~req[p].auth
        /\ req[p].method = "POST" /\ req[p].json /\ UrlParses(req[p].body.url)
        /\ resp[p].status = 401

\* C16: every request with the valid bearer token and no url ends with the
\* 400 'URL is required' response, and no session is acquired for it.
C16_MissingUrlIsBadRequest ==
    \A p \in Procs :
        (kind[p] = "fetch" /\ req[p].auth /\ req[p].body.url = NoUrl) =>
            /\ pc[p] = "done" /\ hstate[p] = "returned"
            /\ resp[p].status = 400 /\ resp[p].message = "URL is required"
            /\ calls[p] = NoCalls /\ browser[p] = 0

\* C17: a PUT with the valid token, a JSON body and a url acquires no session
\* and writes nothing; it ends with 202 or 500; with 202 exactly one message
\* is in the queue, carrying the url and idle, lang and mode with 1000, "en"
\* and "html" where the body had none; with 500 the queue got nothing.
C17_EnqueueThenAccepted ==
    \A p \in Procs :
        (kind[p] = "fetch" /\ req[p].auth /\ req[p].method = "PUT" /\ req[p].json
         /\ req[p].body.url # NoUrl) =>
            LET b == req[p].body IN
            /\ calls[p] = NoCalls /\ browser[p] = 0 /\ log[p] = <<>>
            /\ htmlBucket = {} /\ shotBucket = {} /\ meta = {}
            /\ pc[p] \in {"send", "done"}
            /\ pc[p] = "send" => (queue = <<>> /\ resp[p] = NoResponse)
            /\ pc[p] = "done" => (hstate[p] = "returned" /\ resp[p].status \in {202, 500})
            /\ resp[p].status = 500 => queue = <<>>
            /\ resp[p].status = 202 =>
                  queue = << [url |-> b.url,
                              idle |-> IF b.idle = 0 THEN 1000 ELSE b.idle,
                              lang |-> IF b.lang = Missing THEN "en" ELSE b.lang,
                              mode |-> IF b.mode = Missing THEN "html" ELSE b.mode] >>
C17_Witness ==
    \E p \in Procs :
        /\ kind[p] = "fetch" /\ req[p].method = "PUT" /\ resp[p].status = 202
        /\ req[p].body.idle = 0 /\ req[p].body.lang = Missing /\ req[p].body.mode = Missing
        /\ Len(queue) = 1
        /\ queue[1].idle = 1000 /\ queue[1].lang = "en" /\ queue[1].mode = "html"

\* The step of p in which an object was put in the screenshot bucket, and in
\* the HTML bucket.
ScreenshotStored(p) == pc[p] = "saveScreenshot" /\ log'[p] # log[p]
HtmlStored(p) == pc[p] = "saveHTML" /\ log'[p] # log[p]

\* C18: every object and every row carries the key derived from the host and
\* the serialisation of its url, whatever the mode, lang and idle of the
\* request: a screenshot goes to the screenshot bucket under that key with
\* the .png suffix and leaves the HTML bucket as it is, the HTML goes to the
\* HTML bucket under the same key with the .html suffix and leaves the
\* screenshot bucket as it is, an HTML-mode scrape never changes the
\* screenshot bucket, and the upsert that follows sets the row's r2_path to
\* that key and its page_crawled_at to the current time.
C18_KeySharedAcrossModes ==
    /\ [](/\ \A o \in htmlBucket : \E u \in RawUrls : o.key = <<KeyOf(u), ".html">>
          /\ \A o \in shotBucket : \E u \in RawUrls : o.key = <<KeyOf(u), ".png">>)
    /\ [][\A p \in Procs :
            /\ ScreenshotStored(p) =>
                  /\ htmlBucket' = htmlBucket
                  /\ \E o \in shotBucket' : o.key = <<KeyOf(msg[p].url), ".png">>
                  /\ \A o \in shotBucket :
                        o.key # <<KeyOf(msg[p].url), ".png">> => o \in shotBucket'
            /\ HtmlStored(p) =>
                  /\ shotBucket' = shotBucket
                  /\ \E o \in htmlBucket' : o.key = <<KeyOf(msg[p].url), ".html">>
            /\ (pc[p] \in ScrapePcs /\ msg[p].mode = HTML) => shotBucket' = shotBucket
            /\ (pc[p] \in ScrapePcs /\ msg[p].mode = SCREENSHOT) => htmlBucket' = htmlBucket
            /\ Upserted(p) =>
                  /\ htmlBucket' = htmlBucket /\ shotBucket' = shotBucket
                  /\ \E r \in meta' :
                        /\ r.url = msg[p].url /\ r.r2_path = KeyOf(msg[p].url)
                        /\ r.page_crawled_at = now]_vars
\* A SCREENSHOT-mode scrape of a url whose HTML was stored before has
\* upserted: both buckets hold an object under the url's key.
C18_Witness ==
    \E p \in Procs : \E r \in meta :
        /\ kind[p] = "queue" /\ idx[p] = 2 /\ pc[p] = "ack" /\ msg[p].mode = SCREENSHOT
        /\ sigs[p] = << [i |-> 1, sig |-> "ack", failed |-> FALSE] >>
        /\ r.url = msg[p].url /\ seq = 2 /\ r.page_crawled_at = 2
        /\ r.r2_path = KeyOf(msg[p].url)
        /\ htmlBucket = {HtmlObjectOf(msg[p].url)}
        /\ \E o \in shotBucket : o.key = <<KeyOf(msg[p].url), ".png">>

\* The last step of the scrapePage call of p is a navigation that resolved
\* with status c (0: no response) other than 200.
LoadFailedWith(p, c) ==
    /\ log[p] # <<>> /\ log[p][Len(log[p])] = Step("goto", c)
    /\ c # 200
\* The response carries status c: as its status, or in its error detail.
CarriesStatus(r, c) ==
    \/ r.status = c
    \/ r.error \in {ToString(c), "Failed to load page: " \o ToString(c),
                     "Failed to load page (" \o ToString(c) \o ")"}

\* C19: when navigation resolved with a status other than 200, or with no
\* response, the failure the synchronous caller receives carries that status.
C19_StatusInErrorDetail ==
    \A p \in Procs : \A c \in GotoStatuses :
        (IsSync(p) /\ hstate[p] = "returned" /\ LoadFailedWith(p, c)) =>
            (resp[p].status >= 500 /\ CarriesStatus(resp[p], c))

\* C20: for a url that is present but is no absolute URL no session is
\* acquired: the execution handling it has made no sessions, connect or
\* launch call.
C20_InvalidUrlBeforeSession ==
    \A p \in Procs :
        (msg[p].url # NoUrl /\ ~UrlParses(msg[p].url)) =>
            (calls[p].sessions = 0 /\ calls[p].connect = 0 /\ calls[p].launch = 0)

\* C21: a metadata row is written only by an attempt that stored an artifact,
\* whatever the mode string of the request or message: every row's r2_path
\* is the key of an object in one of the buckets, and a scrapePage call that
\* made its upsert has made a put before.
C21_MetadataImpliesArtifact ==
    /\ \A r \in meta : \E o \in htmlBucket \cup shotBucket : o.key[1] = r.r2_path
    /\ \A p \in Procs :
          "saveMeta" \in Steps(p) => Steps(p) \cap StoreSteps # {}

\* C22: a synchronous POST makes at most one disconnect call on every path,
\* also when a disconnect call throws, and once it has made the call it
\* ends by returning a response.
C22_ReleaseAtMostOnce ==
    \A p \in Procs :
        (IsSync(p) /\ calls[p].disconnect > 0) =>
            /\ calls[p].disconnect = 1
            /\ pc[p] = "done" =>
                  (hstate[p] = "returned" /\ resp[p].status \in {200, 500})

====
